---------------------------- MODULE Spec2Model ----------------------------
(***************************************************************************)
(* Warehouse inventory REST server (src/app.cpp): the in-memory collection *)
(* db["items"], the backing file db.json, its sibling db.json.tmp, the     *)
(* store mutex db_mutex and the request handlers that run on the server's  *)
(* worker threads.                                                         *)
(*                                                                         *)
(* A JSON object is a function from member names to values.  A JSON value  *)
(* held under "__backendId" is a triple <<kind, ms, c>>: kind "b" is the   *)
(* string "b-<ms>-<c>", kind "x" is a string of another form, kind "num"   *)
(* is a JSON number (not a string).  A timestamp is an integer, the other  *)
(* members are strings.                                                    *)
(***************************************************************************)
EXTENDS Integers, Sequences, FiniteSets, TLC

(* ------------------------------ bounds -------------------------------- *)
NumWorkers == 2
MaxReqs == 2
MaxFaults == 1

Main == 0
NoOwner == -1
Workers == 1..NumWorkers
Threads == 0..NumWorkers

(* ------------------------- JSON values -------------------------------- *)
BID == "__backendId"
TS == "timestamp"

\* json::contains(key) on an object
Contains(r, k) == k \in DOMAIN r

\* json::is_string() on the value stored under "__backendId"
IsString(v) == v[1] # "num"

\* "b-" + std::to_string(ms) + "-" + std::to_string(c)
IdString(ms, c) == <<"b", ms, c>>

\* system_clock::now() in milliseconds: the wall clock is not monotonic, a read
\* returns one of these values
ClockMs == {1000, 2500}

\* system_clock::to_time_t: whole seconds
ToTimeT(ms) == ms \div 1000

\* the records db.json already holds when the server starts (made by an
\* earlier run, at millisecond 0)
OldRec2 == ("item_id" :> "I2") @@ ("item_name" :> "Older") @@ (BID :> <<"b", 0, 1>>) @@ (TS :> 0)

OldRec == ("item_id" :> "I0") @@ ("item_name" :> "Old") @@ (BID :> <<"b", 0, 0>>) @@ (TS :> 0)

ValidBody == ("item_id" :> "I1") @@ ("item_name" :> "Widget")

\* request bodies of POST /api/items
PostBodies ==
  { ValidBody,
    ("item_id" :> "I1"),
    ("item_name" :> "Widget"),
    ValidBody @@ (BID :> <<"b", 0, 0>>),
    ValidBody @@ (BID :> <<"num", 7, 0>>) }

\* request bodies of PUT /api/items/:id
PutBodies ==
  { ("item_name" :> "Widget2"),
    (BID :> <<"x", 0, 0>>) @@ (TS :> 9) }

\* the :id of PUT and DELETE, always a string
UrlIds == { <<"b", 0, 0>>, <<"b", 1000, 0>>, <<"x", 1, 1>> }

(* --------------------------- file contents ---------------------------- *)
\* What a path holds.  "absent": no such file.  "full": the complete text
\* dump(2) of {"items": recs}.  "trunc": a proper prefix of such a text, the
\* records in recs written and the rest missing (zero bytes when recs is
\* empty).  "notarray": the complete text {"items": "not-an-array"}.
NoFile == [kind |-> "absent", recs |-> <<>>]
NotArrayFile == [kind |-> "notarray", recs |-> <<>>]

\* db.dump(2)
Dump(items) == [kind |-> "full", recs |-> items]

\* the text of a stream that failed after k records
Truncated(items, k) == [kind |-> "trunc", recs |-> SubSeq(items, 1, k)]

\* fs::exists
Exists(f) == f.kind # "absent"

\* i >> db succeeds (no parse_error)
Parses(f) == f.kind \in {"full", "notarray"}

\* db.is_object() && db.contains("items") && db["items"].is_array()
ShapeOk(f) == f.kind = "full"

\* a load that takes whatever records the text holds, without the parse and
\* shape tests
LoadedNoCheck(f) == f.recs

\* the collection load_db leaves in memory for an existing file
Loaded(f) == IF Parses(f) /\ ShapeOk(f) THEN f.recs ELSE <<>>

InitFiles ==
  { NoFile, Dump(<<>>), Dump(<<OldRec, OldRec2>>), NotArrayFile,
    Truncated(<<OldRec, OldRec2>>, 1) }

\* std::mutex::lock() by the thread that already owns the mutex is undefined:
\* the build decides whether the thread waits for itself, lock() throws
\* std::system_error, or the lock is taken again (owner-counted mutex)
Builds == {"deadlock", "throw", "recursive"}

VARIABLES
  build,      \* what re-locking db_mutex does in this build
  db,         \* db["items"]
  file,       \* content of DB_PATH
  tmp,        \* content of DB_PATH + ".tmp"
  owner,      \* thread owning db_mutex, or NoOwner
  depth,      \* number of lock_guards the owner has on db_mutex
  counter,    \* static std::atomic<uint64_t> counter of make_backend_id
  listening,  \* svr.listen has been reached
  pc,         \* position of each thread
  req,        \* request of each worker: [op, id, body]
  item,       \* newItem of the POST handler
  res,        \* response of each worker
  view,       \* GET: the collection as the copy began to read it, then out["data"]
  raced,      \* db was written while this thread's GET copy was running
  saved,      \* save_db in the running critical section: "none", "called", "threw", "true", "false"
  ioFailed,   \* an I/O step of the running save_db failed
  dbAtLock,   \* db when the running critical section began
  fileAtLock, \* file when the running critical section began
  reqs,       \* requests started
  faults,     \* I/O failures so far
  lastSave,   \* how the most recent call of save_db ended: "none", "true", "dirty" (true after a failed write), "false", "threw"
  badLoad,    \* the most recent load_db found an existing file that is malformed
  issued,     \* the values make_backend_id has returned
  tmpFound    \* the running save_db found a temporary file left by an earlier one

vars == <<build, db, file, tmp, owner, depth, counter, listening, pc, req, item,
          res, view, raced, saved, ioFailed, dbAtLock, fileAtLock, reqs, faults,
          lastSave, badLoad, issued, tmpFound>>

NoReq == [op |-> "none", id |-> <<"x", 1, 1>>, body |-> <<>>]

Init ==
  /\ build \in Builds
  /\ db = <<>>
  /\ file \in InitFiles
  /\ tmp = NoFile
  /\ owner = NoOwner
  /\ depth = 0
  /\ counter = 0
  /\ listening = FALSE
  /\ pc = [t \in Threads |-> IF t = Main THEN "ld_lock" ELSE "idle"]
  /\ req = [t \in Threads |-> NoReq]
  /\ item = [t \in Threads |-> <<>>]
  /\ res = [t \in Threads |-> "none"]
  /\ view = [t \in Threads |-> <<>>]
  /\ raced = [t \in Threads |-> FALSE]
  /\ saved = "none"
  /\ ioFailed = FALSE
  /\ dbAtLock = <<>>
  /\ fileAtLock = NoFile
  /\ reqs = 0
  /\ faults = 0
  /\ lastSave = "none"
  /\ badLoad = FALSE
  /\ issued = {}
  /\ tmpFound = FALSE

(* ----------------------------- helpers -------------------------------- *)
\* it.contains("__backendId") && it["__backendId"].get<std::string>() throws
\* type_error: the member is there and is not a string
TypeError(r) == Contains(r, BID) /\ ~IsString(r[BID])

\* it.contains("__backendId") && it["__backendId"].get<std::string>() == id
Matches(r, id) == Contains(r, BID) /\ IsString(r[BID]) /\ r[BID] = id

MatchIdx(items, id) == {i \in 1..Len(items) : Matches(items[i], id)}

\* index of the record the PUT loop stops at (break), 0 when it reaches the end
FirstMatch(items, id) ==
  IF MatchIdx(items, id) = {} THEN 0
  ELSE CHOOSE i \in MatchIdx(items, id) : \A j \in MatchIdx(items, id) : i <= j

\* the PUT loop meets a non-string "__backendId" before it stops
PutThrows(items, id) ==
  \E j \in 1..Len(items) :
    /\ TypeError(items[j])
    /\ (FirstMatch(items, id) = 0 \/ j < FirstMatch(items, id))

\* a merge that replaces the record by the supplied fields
MergeFieldsReplace(r, body) == body

\* for (it2 ...) it[it2.key()] = it2.value();
MergeFields(r, body) ==
  [k \in DOMAIN r \cup DOMAIN body |-> IF k \in DOMAIN body THEN body[k] ELSE r[k]]

\* the PUT loop on a collection where it finds a match
MergeUpdate(items, id, body) ==
  [items EXCEPT ![FirstMatch(items, id)] = MergeFields(@, body)]

\* the DELETE loop meets a non-string "__backendId" (it visits every record)
DeleteThrows(items) == \E j \in 1..Len(items) : TypeError(items[j])

\* newarr of the DELETE handler
Filtered(items, id) == SelectSeq(items, LAMBDA r : ~Matches(r, id))

\* a test that asks for "item_id" alone
HasItemId(body) == Contains(body, "item_id")

\* body.contains("item_id") && body.contains("item_name")
HasRequired(body) == Contains(body, "item_id") /\ Contains(body, "item_name")

\* newItem of the POST handler; idv is what make_backend_id returned, ts the
\* to_time_t of the clock
NewItem(body, idv, ts) ==
  LET a == IF Contains(body, BID) THEN body ELSE body @@ (BID :> idv)
  IN  IF Contains(a, TS) THEN a ELSE a @@ (TS :> ts)

\* a write to db by thread t races with every GET copy running on another thread
MarkRace(t) == [u \in Threads |-> raced[u] \/ (u # t /\ pc[u] = "get_copy")]

\* std::lock_guard<std::mutex> lock(db_mutex) by a thread that does not own
\* it; the critical section begins
Acquire(t) ==
  /\ owner = NoOwner
  /\ owner' = t
  /\ depth' = 1
  /\ dbAtLock' = db
  /\ fileAtLock' = file
  /\ ioFailed' = FALSE
  /\ tmpFound' = FALSE

\* the outermost lock_guard of thread t goes out of scope
Release(t) ==
  /\ owner' = NoOwner
  /\ depth' = 0
  /\ saved' = "none"
  /\ ioFailed' = FALSE
  /\ dbAtLock' = <<>>
  /\ fileAtLock' = NoFile
  /\ tmpFound' = FALSE

CanStart(t) ==
  /\ t \in Workers
  /\ listening
  /\ pc[t] = "idle"
  /\ reqs < MaxReqs

(* ------------------------------ load_db ------------------------------- *)
\* lines 27-43, called by main (line 77) and by the GET handler (line 92):
\* take the lock; a missing file is created (opened here, written by
\* LoadWrite), an existing one is read and parsed
LoadLock(t) ==
  /\ IF t = Main
       THEN pc[t] = "ld_lock" /\ UNCHANGED <<req, reqs>>
       ELSE /\ CanStart(t)
            /\ reqs' = reqs + 1
            /\ req' = [req EXCEPT ![t] = [op |-> "get", id |-> NoReq.id, body |-> <<>>]]
  /\ Acquire(t)
  /\ raced' = MarkRace(t)
  /\ \/ /\ ~Exists(file)
        /\ db' = <<>>
        /\ \/ /\ file' = Truncated(<<>>, 0)
              /\ pc' = [pc EXCEPT ![t] = "ld_write"]
              /\ UNCHANGED faults
           \/ /\ faults < MaxFaults
              /\ faults' = faults + 1
              /\ pc' = [pc EXCEPT ![t] = "ld_ret"]
              /\ UNCHANGED file
     \/ /\ Exists(file)
        /\ \/ /\ db' = Loaded(file)
              /\ UNCHANGED faults
           \/ /\ faults < MaxFaults
              /\ faults' = faults + 1
              /\ db' = <<>>
        /\ pc' = [pc EXCEPT ![t] = "ld_ret"]
        /\ UNCHANGED file
  /\ badLoad' = (Exists(file) /\ ~(Parses(file) /\ ShapeOk(file)))
  /\ UNCHANGED <<build, tmp, counter, listening, item, res, view, saved, lastSave,
                 issued>>

\* lines 33-35: o << db.dump(2) into the file just created
LoadWrite(t) ==
  /\ pc[t] = "ld_write"
  /\ \/ /\ file' = Dump(db)
        /\ UNCHANGED faults
     \/ /\ faults < MaxFaults
        /\ faults' = faults + 1
        /\ UNCHANGED file
  /\ pc' = [pc EXCEPT ![t] = "ld_ret"]
  /\ UNCHANGED <<build, db, tmp, owner, depth, counter, listening, req, item, res,
                 view, raced, saved, ioFailed, dbAtLock, fileAtLock, reqs,
                 lastSave, badLoad, issued, tmpFound>>

\* load_db returns: the lock_guard releases the mutex.  main goes on to
\* svr.listen; the GET handler starts to copy db["items"] (line 95)
LoadReturn(t) ==
  /\ pc[t] = "ld_ret"
  /\ Release(t)
  /\ IF t = Main
       THEN /\ listening' = TRUE
            /\ pc' = [pc EXCEPT ![t] = "serving"]
            /\ UNCHANGED <<view, raced>>
       ELSE /\ pc' = [pc EXCEPT ![t] = "get_copy"]
            /\ view' = [view EXCEPT ![t] = db]
            /\ raced' = [raced EXCEPT ![t] = FALSE]
            /\ UNCHANGED listening
  /\ UNCHANGED <<build, db, file, tmp, counter, req, item, res, reqs, faults,
                 lastSave, badLoad, issued>>

(* --------------------------- GET /api/items --------------------------- *)
\* lines 93-96: out["data"] = db["items"], read without the lock.  A copy that
\* ran while another thread wrote db is a data race: it yields the old
\* collection, the new one, or garbage
GetCopy(t) ==
  /\ pc[t] = "get_copy"
  /\ \/ /\ view' = [view EXCEPT ![t] = db]
        /\ res' = [res EXCEPT ![t] = "ok"]
     \/ /\ raced[t]
        /\ UNCHANGED view
        /\ res' = [res EXCEPT ![t] = "ok"]
     \/ /\ raced[t]
        /\ UNCHANGED view
        /\ res' = [res EXCEPT ![t] = "torn"]
  /\ pc' = [pc EXCEPT ![t] = "fin"]
  /\ UNCHANGED <<build, db, file, tmp, owner, depth, counter, listening, req, item,
                 raced, saved, ioFailed, dbAtLock, fileAtLock, reqs, faults,
                 lastSave, badLoad, issued, tmpFound>>

(* -------------------------- make_backend_id --------------------------- *)
\* an identifier made from the clock read alone, with no counter value
StaleId(ms) == IdString(ms, 0)

\* lines 67-74: the identifier made from a clock read and counter.fetch_add(1)
make_backend_id(ms) == IdString(ms, counter)

(* -------------------------- POST /api/items --------------------------- *)
\* lines 102-112: parse, test for the required members, complete newItem
StartPost(t) ==
  /\ CanStart(t)
  /\ reqs' = reqs + 1
  /\ \E body \in PostBodies :
       /\ req' = [req EXCEPT ![t] = [op |-> "post", id |-> NoReq.id, body |-> body]]
       /\ IF ~HasRequired(body)
            THEN /\ res' = [res EXCEPT ![t] = "missing"]
                 /\ pc' = [pc EXCEPT ![t] = "fin"]
                 /\ UNCHANGED <<item, counter, issued>>
            ELSE /\ \E ms \in ClockMs :
                      /\ item' = [item EXCEPT ![t] = NewItem(body, make_backend_id(ms), ToTimeT(ms))]
                      /\ issued' = IF Contains(body, BID) THEN issued
                                   ELSE issued \cup {make_backend_id(ms)}
                 /\ counter' = IF Contains(body, BID) THEN counter ELSE counter + 1
                 /\ pc' = [pc EXCEPT ![t] = "post_lock"]
                 /\ UNCHANGED res
  /\ UNCHANGED <<build, db, file, tmp, owner, depth, listening, view, raced, saved,
                 ioFailed, dbAtLock, fileAtLock, faults, lastSave, badLoad,
                 tmpFound>>

\* lines 115-117: take the lock, push_back, call save_db
PostLockPush(t) ==
  /\ pc[t] = "post_lock"
  /\ Acquire(t)
  /\ db' = Append(db, item[t])
  /\ raced' = MarkRace(t)
  /\ saved' = "called"
  /\ pc' = [pc EXCEPT ![t] = "sv_lock"]
  /\ UNCHANGED <<build, file, tmp, counter, listening, req, item, res, view, reqs,
                 faults, lastSave, badLoad, issued>>

(* ------------------------- PUT /api/items/:id ------------------------- *)
\* lines 136-158: parse the body, take the lock, scan for the first match and merge into it;
\* no match: 404; get<std::string>() on a non-string: type_error, caught at
\* line 169 (400); match: call save_db
PutLockMerge(t) ==
  /\ CanStart(t)
  /\ reqs' = reqs + 1
  /\ Acquire(t)
  /\ \E id \in UrlIds, body \in PutBodies :
     /\ req' = [req EXCEPT ![t] = [op |-> "put", id |-> id, body |-> body]]
     /\ IF PutThrows(db, id)
       THEN /\ res' = [res EXCEPT ![t] = "invalid"]
            /\ pc' = [pc EXCEPT ![t] = "fin"]
            /\ UNCHANGED <<db, raced, saved>>
       ELSE IF FirstMatch(db, id) = 0
       THEN /\ res' = [res EXCEPT ![t] = "notfound"]
            /\ pc' = [pc EXCEPT ![t] = "fin"]
            /\ UNCHANGED <<db, raced, saved>>
       ELSE /\ db' = MergeUpdate(db, id, body)
            /\ raced' = MarkRace(t)
            /\ saved' = "called"
            /\ pc' = [pc EXCEPT ![t] = "sv_lock"]
            /\ UNCHANGED res
  /\ UNCHANGED <<build, file, tmp, counter, listening, item, view, faults, lastSave,
                 badLoad, issued>>

(* ----------------------- DELETE /api/items/:id ------------------------ *)
\* lines 178-193: take the lock, build newarr without the matching records,
\* assign it; removed: call save_db; otherwise 404 (lines 201-205).  A
\* non-string "__backendId" throws type_error out of the handler
DeleteLockFilter(t) ==
  /\ CanStart(t)
  /\ reqs' = reqs + 1
  /\ Acquire(t)
  /\ \E id \in UrlIds :
     /\ req' = [req EXCEPT ![t] = [op |-> "delete", id |-> id, body |-> <<>>]]
     /\ IF DeleteThrows(db)
       THEN /\ res' = [res EXCEPT ![t] = "exception"]
            /\ pc' = [pc EXCEPT ![t] = "fin"]
            /\ UNCHANGED <<db, raced, saved>>
       ELSE /\ db' = Filtered(db, id)
            /\ raced' = MarkRace(t)
            /\ IF MatchIdx(db, id) # {}
                 THEN /\ saved' = "called"
                      /\ pc' = [pc EXCEPT ![t] = "sv_lock"]
                      /\ UNCHANGED res
                 ELSE /\ res' = [res EXCEPT ![t] = "notfound"]
                      /\ pc' = [pc EXCEPT ![t] = "fin"]
                      /\ UNCHANGED saved
  /\ UNCHANGED <<build, file, tmp, counter, listening, item, view, faults, lastSave,
                 badLoad, issued>>

(* ------------------------------ save_db ------------------------------- *)
\* the response of a handler whose call of save_db threw: POST and PUT catch
\* std::exception (lines 127, 169: 400), DELETE has no handler
ThrowResponse(op) == IF op = "delete" THEN "exception" ELSE "invalid"

\* line 52: std::lock_guard on db_mutex, which the calling handler owns.  In
\* the build where the thread waits for itself no step follows
SaveLock(t) ==
  /\ pc[t] = "sv_lock"
  /\ owner = t
  /\ \/ /\ build = "recursive"
        /\ depth' = depth + 1
        /\ pc' = [pc EXCEPT ![t] = "sv_write"]
        /\ UNCHANGED <<res, saved, lastSave>>
     \/ /\ build = "throw"
        /\ res' = [res EXCEPT ![t] = ThrowResponse(req[t].op)]
        /\ saved' = "threw"
        /\ lastSave' = "threw"
        /\ pc' = [pc EXCEPT ![t] = "fin"]
        /\ UNCHANGED depth
  /\ UNCHANGED <<build, db, file, tmp, owner, counter, listening, req, item, view,
                 raced, ioFailed, dbAtLock, fileAtLock, reqs, faults, badLoad,
                 issued, tmpFound>>

\* lines 55-58: open the temporary file, write the dump, close.  A stream
\* that failed to open or to write sets its failbit and throws nothing
SaveWrite(t) ==
  /\ pc[t] = "sv_write"
  /\ \/ /\ tmp' = Dump(db)
        /\ UNCHANGED <<faults, ioFailed>>
     \/ /\ faults < MaxFaults
        /\ faults' = faults + 1
        /\ \E k \in 0..Len(db) : tmp' = Truncated(db, k)
        /\ ioFailed' = TRUE
     \/ /\ faults < MaxFaults
        /\ faults' = faults + 1
        /\ ioFailed' = TRUE
        /\ UNCHANGED tmp
  /\ tmpFound' = Exists(tmp)
  /\ pc' = [pc EXCEPT ![t] = "sv_rename"]
  /\ UNCHANGED <<build, db, file, owner, depth, counter, listening, req, item, res,
                 view, raced, saved, dbAtLock, fileAtLock, reqs, lastSave, badLoad,
                 issued>>

\* a handler that answers success whatever save_db returned
AlwaysOk(ok) == "ok"

\* the response of a handler after save_db returned ok
SaveResponse(ok) == IF ok THEN "ok" ELSE "savefail"

\* a rename that copies: the source stays
CopyOver(src) == <<src, src>>

\* line 59, fs::rename(tmp, DB_FILE) succeeding: <<destination, source>> after
\* it; the destination has the content of the source, the source is gone
RenameOver(src) == <<src, NoFile>>

\* lines 59-63: fs::rename throws when the temporary file is missing or the
\* rename fails; save_db returns and its lock_guard is released; the handler
\* answers 500 on false (lines 117-122, 158-163, 193-198)
SaveRename(t) ==
  /\ pc[t] = "sv_rename"
  /\ \/ /\ Exists(tmp)
        /\ file' = RenameOver(tmp)[1]
        /\ tmp' = RenameOver(tmp)[2]
        /\ saved' = "true"
        /\ lastSave' = IF ioFailed THEN "dirty" ELSE "true"
        /\ res' = [res EXCEPT ![t] = SaveResponse(TRUE)]
        /\ UNCHANGED <<faults, ioFailed>>
     \/ /\ ~Exists(tmp)
        /\ saved' = "false"
        /\ lastSave' = "false"
        /\ res' = [res EXCEPT ![t] = SaveResponse(FALSE)]
        /\ ioFailed' = TRUE
        /\ UNCHANGED <<file, tmp, faults>>
     \/ /\ Exists(tmp)
        /\ faults < MaxFaults
        /\ faults' = faults + 1
        /\ saved' = "false"
        /\ lastSave' = "false"
        /\ res' = [res EXCEPT ![t] = SaveResponse(FALSE)]
        /\ ioFailed' = TRUE
        /\ UNCHANGED <<file, tmp>>
  /\ depth' = depth - 1
  /\ pc' = [pc EXCEPT ![t] = "fin"]
  /\ UNCHANGED <<build, db, owner, counter, listening, req, item, view, raced,
                 dbAtLock, fileAtLock, reqs, badLoad, issued, tmpFound>>

\* the handler returns: a lock_guard still in scope is released and the
\* response is sent
Fin(t) ==
  /\ pc[t] = "fin"
  /\ IF owner = t
       THEN Release(t)
       ELSE UNCHANGED <<owner, depth, saved, ioFailed, dbAtLock, fileAtLock,
                        tmpFound>>
  /\ pc' = [pc EXCEPT ![t] = "idle"]
  /\ req' = [req EXCEPT ![t] = NoReq]
  /\ item' = [item EXCEPT ![t] = <<>>]
  /\ res' = [res EXCEPT ![t] = "none"]
  /\ view' = [view EXCEPT ![t] = <<>>]
  /\ raced' = [raced EXCEPT ![t] = FALSE]
  /\ UNCHANGED <<build, db, file, tmp, counter, listening, reqs, faults, lastSave,
                 badLoad, issued>>

Next ==
  \E t \in Threads :
    \/ LoadLock(t)
    \/ LoadWrite(t)
    \/ LoadReturn(t)
    \/ GetCopy(t)
    \/ StartPost(t)
    \/ PostLockPush(t)
    \/ PutLockMerge(t)
    \/ DeleteLockFilter(t)
    \/ SaveLock(t)
    \/ SaveWrite(t)
    \/ SaveRename(t)
    \/ Fin(t)

Spec == Init /\ [][Next]_vars


(* ============================== claims ================================ *)
Range(q) == {q[i] : i \in 1..Len(q)}

\* record r carries backend identifier id
HasId(r, id) == BID \in DOMAIN r /\ r[BID] = id

\* C1: a create, update or delete that entered its critical section runs to
\* completion: a thread that reached save_db, or holds the response, always
\* has a next step (it never waits on the lock it holds itself)
C1_RunsToCompletion ==
  \A t \in Workers :
    /\ (pc[t] = "sv_lock" /\ owner = t) => ENABLED SaveLock(t)
    /\ pc[t] = "sv_write" => ENABLED SaveWrite(t)
    /\ pc[t] = "sv_rename" => ENABLED SaveRename(t)
    /\ pc[t] = "fin" => ENABLED Fin(t)

\* a create that supplies the required fields and no __backendId of its own
PlainCreate(t) ==
  /\ req[t].op = "post"
  /\ HasRequired(req[t].body)
  /\ ~Contains(req[t].body, BID)

\* C2: with no I/O failure, every concurrent create that supplies no
\* __backendId succeeds, the identifiers of the creates in flight are pairwise
\* distinct, and the record of a finished create is in the collection
C2_ConcurrentCreatesSucceed ==
  faults = 0 =>
    \A t \in Workers :
      PlainCreate(t) =>
        /\ (pc[t] = "sv_lock" /\ owner = t) => ENABLED SaveLock(t)
        /\ pc[t] = "fin" => (res[t] = "ok" /\ item[t] \in Range(db))
        /\ \A u \in Workers \ {t} : PlainCreate(u) => item[u][BID] # item[t][BID]

\* C3: no two records of the in-memory collection have the same __backendId
C3_UniqueIds ==
  \A i \in 1..Len(db), j \in 1..Len(db) :
    (i # j /\ Contains(db[i], BID) /\ Contains(db[j], BID)) => db[i][BID] # db[j][BID]

\* C4: an update leaves the __backendId and the timestamp of the matched
\* record as they were
C4_UpdateKeepsIdAndTimestamp ==
  \A t \in Workers :
    (req[t].op = "put" /\ owner = t /\ saved # "none") =>
      \E i \in 1..Len(dbAtLock) :
        /\ HasId(dbAtLock[i], req[t].id)
        /\ \A j \in 1..(i - 1) : ~HasId(dbAtLock[j], req[t].id)
        /\ db[i][BID] = dbAtLock[i][BID]
        /\ db[i][TS] = dbAtLock[i][TS]

\* a path holds a complete document {"items": [...]}
Complete(f) == f.kind = "full"

\* C5: at every instant the canonical path, when it exists, holds a complete
\* document: no step takes a missing or complete db.json to a partial one
C5_CanonicalAlwaysComplete ==
  [][(~Exists(file) \/ Complete(file)) => (~Exists(file') \/ Complete(file'))]_vars

\* C6: save_db returns false whenever one of its I/O steps failed, and true
\* only if db.json holds the complete serialization of the collection
C6_SaveResultFaithful ==
  saved = "true" => (~ioFailed /\ file = Dump(db))

\* C7: a create whose save_db returned false leaves the collection as it was
\* before the create
C7_FailedCreateRolledBack ==
  \A t \in Workers :
    (req[t].op = "post" /\ pc[t] = "fin" /\ res[t] = "savefail") => db = dbAtLock

\* C8: a thread reads db["items"] only while it holds db_mutex, and the
\* copy list_all returns is the collection of one single instant
C8_ReadsUnderLock ==
  \A t \in Workers :
    /\ pc[t] = "get_copy" => owner = t
    /\ res[t] # "torn"

\* C9: an update whose id no record carries fails with NotFound, leaves the
\* collection and the backing file unchanged and does not call save_db
C9_UpdateUnknownId ==
  \A t \in Workers :
    (/\ req[t].op = "put"
     /\ pc[t] = "fin"
     /\ \A i \in 1..Len(dbAtLock) : ~HasId(dbAtLock[i], req[t].id)) =>
      /\ res[t] = "notfound"
      /\ db = dbAtLock
      /\ file = fileAtLock
      /\ saved = "none"

\* C10: a successful update changes only the first record whose __backendId
\* equals id: the supplied fields take the supplied values, its other fields
\* keep theirs, and the other records, the order and the size are unchanged
C10_UpdateMergesFirstMatch ==
  \A t \in Workers :
    (req[t].op = "put" /\ pc[t] = "fin" /\ res[t] = "ok") =>
      \E i \in 1..Len(dbAtLock) :
        /\ HasId(dbAtLock[i], req[t].id)
        /\ \A j \in 1..(i - 1) : ~HasId(dbAtLock[j], req[t].id)
        /\ Len(db) = Len(dbAtLock)
        /\ \A j \in 1..Len(db) : j # i => db[j] = dbAtLock[j]
        /\ DOMAIN db[i] = DOMAIN dbAtLock[i] \cup DOMAIN req[t].body
        /\ \A k \in DOMAIN req[t].body : db[i][k] = req[t].body[k]
        /\ \A k \in DOMAIN dbAtLock[i] \ DOMAIN req[t].body : db[i][k] = dbAtLock[i][k]

\* a successful update of a record that kept fields the request did not name,
\* in a collection with another record
C10_Witness ==
  \E t \in Workers :
    /\ req[t].op = "put" /\ pc[t] = "fin" /\ res[t] = "ok"
    /\ Len(db) >= 2
    /\ \E i \in 1..Len(db) : DOMAIN db[i] # DOMAIN req[t].body /\ HasId(dbAtLock[i], req[t].id)


\* the collection q without the records that carry backend identifier id
Without(q, id) == SelectSeq(q, LAMBDA r : ~HasId(r, id))

\* C11: a delete whose id some record carries removes every record with that
\* __backendId and nothing else, keeps the others in their order, and calls
\* save_db
C11_DeleteRemovesAllMatches ==
  \A t \in Workers :
    (/\ req[t].op = "delete"
     /\ owner = t
     /\ \E i \in 1..Len(dbAtLock) : HasId(dbAtLock[i], req[t].id)) =>
      /\ db = Without(dbAtLock, req[t].id)
      /\ saved # "none"

\* C12: a delete whose id no record carries fails with NotFound, leaves the
\* collection and the backing file unchanged and does not call save_db
C12_DeleteUnknownId ==
  \A t \in Workers :
    (/\ req[t].op = "delete"
     /\ pc[t] = "fin"
     /\ \A i \in 1..Len(dbAtLock) : ~HasId(dbAtLock[i], req[t].id)) =>
      /\ res[t] = "notfound"
      /\ db = dbAtLock
      /\ file = fileAtLock
      /\ saved = "none"


\* C13: load_db on an existing db.json that does not parse, or is not an
\* object with an array "items", leaves an empty collection in memory,
\* returns normally and leaves the content of db.json as it was
C13_MalformedLoadFailsSoft ==
  \A t \in Threads :
    (pc[t] = "ld_ret" /\ Exists(fileAtLock) /\ ~Complete(fileAtLock)) =>
      /\ db = <<>>
      /\ file = fileAtLock
      /\ owner = t

\* a GET reload that found db.json malformed while records were in memory
C13_Witness ==
  \E t \in Workers :
    /\ pc[t] = "ld_ret"
    /\ Exists(fileAtLock) /\ ~Complete(fileAtLock)
    /\ dbAtLock # <<>>
    /\ db = <<>>


\* C14: when save_db has returned true with a collection in memory, a load_db
\* run next on the file it left yields that same collection
C14_SaveThenLoadRoundTrip ==
  saved = "true" => Loaded(file) = db


\* C15: with no save failure, the reload of a GET that starts after a create,
\* update or delete was answered with success does not discard that mutation:
\* the collection load_db leaves, which the GET goes on to return, is the one
\* the acknowledged mutation left
C15_ReloadKeepsAcknowledged ==
  \A t \in Workers :
    (req[t].op = "get" /\ pc[t] = "ld_ret" /\ lastSave = "true") =>
      db = dbAtLock


\* C16: make_backend_id never returns a value it returned before: the values
\* returned so far are as many as the calls made, each carries the counter
\* value its call fetched, and the counter has grown by one per call
C16_IdsNeverRepeat ==
  /\ Cardinality(issued) = counter
  /\ \A id \in issued : id[1] = "b" /\ id[3] < counter
  /\ \A a, b \in issued : a # b => a[3] # b[3]

\* two calls that read the same clock value have returned different
\* identifiers
C16_Witness ==
  \E a, b \in issued : a # b /\ a[2] = b[2]


\* the body of a POST lacks "item_id" or "item_name"
LacksField(r) ==
  r.op = "post" /\ ("item_id" \notin DOMAIN r.body \/ "item_name" \notin DOMAIN r.body)

\* C17: a POST whose body lacks "item_id" or "item_name" is answered with the
\* missing-fields error at once; no step of it, from its start to its return,
\* appends a record, draws an identifier, calls save_db or touches the
\* collection or the files
C17_MissingFieldsRejected ==
  [][\A t \in Workers :
       ((LacksField(req'[t]) /\ pc[t] = "idle") \/ (LacksField(req[t]) /\ pc'[t] # pc[t])) =>
         /\ (pc[t] = "idle" => pc'[t] = "fin" /\ res'[t] = "missing")
         /\ (pc[t] # "idle" => pc[t] = "fin" /\ pc'[t] = "idle")
         /\ UNCHANGED <<db, file, tmp, counter, issued, saved, lastSave, owner>>]_vars

\* a POST without a required member has been answered while the collection
\* holds records
C17_Witness ==
  \E t \in Workers :
    /\ LacksField(req[t])
    /\ pc[t] = "fin"
    /\ res[t] = "missing"
    /\ db # <<>>


\* C18: when save_db returns false in a PUT or a DELETE, the handler answers
\* with the persistence failure, the collection keeps the merge or the
\* removal, and db.json still holds the document it held before
C18_FailedSaveKeepsMutation ==
  \A t \in Workers :
    (req[t].op \in {"put", "delete"} /\ pc[t] = "fin" /\ saved = "false") =>
      /\ res[t] = "savefail"
      /\ owner = t
      /\ req[t].op = "put" => db = MergeUpdate(dbAtLock, req[t].id, req[t].body)
      /\ req[t].op = "delete" => db = Without(dbAtLock, req[t].id)
      /\ file = fileAtLock

\* a PUT or a DELETE whose save_db returned false has changed the collection
C18_Witness ==
  \E t \in Workers :
    /\ req[t].op \in {"put", "delete"}
    /\ pc[t] = "fin"
    /\ res[t] = "savefail"
    /\ db # dbAtLock
    /\ Exists(file)


\* a thread is in save_db between the opening of db.json.tmp and the rename
SaveInProgress == \E t \in Threads : pc[t] = "sv_rename"

\* C19: whenever no save_db is in progress and the most recent one returned
\* true, db.json.tmp does not exist, also when that save_db found a temporary
\* file left behind by an earlier one that failed
C19_NoTmpAfterSave ==
  (~SaveInProgress /\ lastSave \in {"true", "dirty"}) => ~Exists(tmp)

\* a save_db that found a temporary file left behind has returned true
C19_Witness ==
  /\ ~SaveInProgress
  /\ lastSave = "true"
  /\ saved = "true"
  /\ tmpFound
  /\ ~Exists(tmp)


\* record r was created by a POST of this run (the records of the initial
\* files carry other item_id values)
CreatedHere(r) == "item_id" \in DOMAIN r /\ r["item_id"] = ValidBody["item_id"]

\* C20: when the most recent load_db found db.json malformed and emptied the
\* collection, a create, update or delete whose save_db returns true leaves
\* db.json holding the dump of the collection in memory: the malformed content
\* is gone and the file holds only records created after that load
C20_MalformedOverwritten ==
  \A t \in Workers :
    (pc[t] = "fin" /\ owner = t /\ saved = "true" /\ badLoad) =>
      /\ file = Dump(db)
      /\ \A i \in 1..Len(file.recs) : CreatedHere(file.recs[i])

=============================================================================
